---- MODULE Spec2Model ----
(***************************************************************************)
(* Model of agreement_rate_by_category (annotator-agreement.ipynb, cell 6) *)
(* as a state machine: one call on a dataset, one step per row of the      *)
(* outer loop, and the final dict comprehension, which either returns the  *)
(* mapping of rates or raises ZeroDivisionError.                           *)
(*                                                                         *)
(* Numbers.  choose2 uses Python 3 true division, so both accumulators     *)
(* hold floats; n*(n-1) is always even, so every value is an integer       *)
(* exactly representable as a float and is modelled by that integer.  A    *)
(* rate agreement/potential is the correctly rounded quotient of two small *)
(* integers, so two rates are equal as floats exactly when they are equal  *)
(* as fractions: a rate is modelled as the fraction in lowest terms,       *)
(* <<numerator, denominator>>, 1.0 being <<1, 1>> and 0.0 being <<0, 1>>.  *)
(***************************************************************************)
EXTENDS Integers, Sequences, FiniteSets

\* ---------------------------------------------------------------- bounds
\* A dataset has at most MaxRows rows holding at most MaxCells labels in all.
MaxRows == 2

MaxCells == 6

\* Number of shards a dataset is partitioned into (shard-and-merge).
NumShards == 2

\* The category labels of the notebook's experiments.
Labels == {0, 1, 2}

\* ------------------------------------------------------- input datasets
\* cuts[k] is the index in flat of the last label of row k.
CutsFor(L, r) ==
    {c \in [1..r -> 0..L] :
        /\ \A k \in 1..(r - 1) : c[k] <= c[k + 1]
        /\ IF r = 0 THEN L = 0 ELSE c[r] = L}

Split(flat, cuts) ==
    [k \in 1..Len(cuts) |->
        SubSeq(flat, (IF k = 1 THEN 0 ELSE cuts[k - 1]) + 1, cuts[k])]

\* ------------------------------------------------------ pure operations
\* Slip: n*(n+1)/2, the pairs of n + 1 items.
choose2_plus(n) == (n * (n + 1)) \div 2

\* def choose2(n): return n*(n-1)/2
choose2(n) == (n * (n - 1)) \div 2

\* Slip: only the first label of the row is taken.
SetOf_head(row) == IF Len(row) = 0 THEN {} ELSE {row[1]}

\* Slip: the loop runs over every known category, not those of the row.
SetOf_all(row) == Labels

\* set(row)
SetOf(row) == {row[j] : j \in DOMAIN row}

\* Slip: row[1:].count(cat), the first position is not counted.
Count_tail(row, cat) == Cardinality({j \in DOMAIN row : j > 1 /\ row[j] = cat})

\* row.count(cat)
Count(row, cat) == Cardinality({j \in DOMAIN row : row[j] = cat})

\* defaultdict(int): reading a missing key gives 0.
DefaultGet(d, k) == IF k \in DOMAIN d THEN d[k] ELSE 0

\* Slip: d[k] = x, the sum so far is overwritten.
AddTo_assign(d, k, x) ==
    [c \in (DOMAIN d) \cup {k} |-> IF c = k THEN x ELSE d[c]]

\* d[k] += x on a defaultdict(int): creates the key when it is missing.
AddTo(d, k, x) ==
    [c \in (DOMAIN d) \cup {k} |-> IF c = k THEN DefaultGet(d, k) + x ELSE d[c]]

\* Slip: choose2(count + 1) in the agreement term.
AgreementTerm_plus(row, cat) == choose2(Count(row, cat) + 1)

\* agreement[cat] += choose2(count)
AgreementTerm(row, cat) == choose2(Count(row, cat))

\* Slip: choose2(count) in the potential term.
PotentialTerm_count(row, cat) ==
    Count(row, cat) * Len(row) - choose2(Count(row, cat))

\* potential[cat] += count * len(row) - choose2(count + 1)
PotentialTerm(row, cat) ==
    Count(row, cat) * Len(row) - choose2(Count(row, cat) + 1)

\* Slip: the two accumulators are swapped.
CatStep_swapped(acc, row, cat) ==
    [agreement |-> AddTo(acc.agreement, cat, PotentialTerm(row, cat)),
     potential |-> AddTo(acc.potential, cat, AgreementTerm(row, cat))]

\* The body of "for cat in set(row)" for one cat.
CatStep(acc, row, cat) ==
    [agreement |-> AddTo(acc.agreement, cat, AgreementTerm(row, cat)),
     potential |-> AddTo(acc.potential, cat, PotentialTerm(row, cat))]

\* "for cat in set(row)": the iteration order of a set is unspecified; each
\* iteration touches only its own key, so the order cannot change the result
\* and one order is taken.
RECURSIVE RowLoop(_, _, _)
RowLoop(acc, row, cats) ==
    IF cats = {} THEN acc
    ELSE LET cat == CHOOSE c \in cats : TRUE
         IN RowLoop(CatStep(acc, row, cat), row, cats \ {cat})

RowStep(acc, row) == RowLoop(acc, row, SetOf(row))

\* agreement = defaultdict(int); potential = defaultdict(int)
EmptyAcc == [agreement |-> <<>>, potential |-> <<>>]

\* "for row in data" run to the end.
RECURSIVE Accumulate(_)
Accumulate(d) ==
    IF Len(d) = 0 THEN EmptyAcc
    ELSE RowStep(Accumulate(SubSeq(d, 1, Len(d) - 1)), d[Len(d)])

RECURSIVE GCD(_, _)
GCD(a, b) == IF b = 0 THEN a ELSE GCD(b, a % b)

\* agreement[cat] / potential[cat] with potential[cat] # 0.
Rate(a, p) == <<a \div GCD(a, p), p \div GCD(a, p)>>

\* The division raises ZeroDivisionError for a cat with potential[cat] = 0.
Raises(acc) ==
    \E cat \in DOMAIN acc.agreement : DefaultGet(acc.potential, cat) = 0

\* {cat: agreement[cat] / potential[cat] for cat in agreement}
RateMap(acc) ==
    [cat \in DOMAIN acc.agreement |->
        Rate(acc.agreement[cat], DefaultGet(acc.potential, cat))]

\* The return statement: how the call ends and with what mapping.
Finish(acc) ==
    IF Raises(acc)
    THEN [pc |-> "raised", result |-> <<>>]
    ELSE [pc |-> "returned", result |-> RateMap(acc)]

\* The whole call as a function of its argument.
agreement_rate_by_category(d) == Finish(Accumulate(d))

\* Merging two accumulator mappings by per-key addition (shard-and-merge).
MergeMap(x, y) ==
    [c \in (DOMAIN x) \cup (DOMAIN y) |-> DefaultGet(x, c) + DefaultGet(y, c)]

Merge(a, b) ==
    [agreement |-> MergeMap(a.agreement, b.agreement),
     potential |-> MergeMap(a.potential, b.potential)]

\* ---------------------------------------------------------------- state
VARIABLES data, i, agreement, potential, pc, result

vars == <<data, i, agreement, potential, pc, result>>

acc_now == [agreement |-> agreement, potential |-> potential]

Init ==
    /\ \E L \in 0..MaxCells, r \in 0..MaxRows :
         \E flat \in [1..L -> Labels], cuts \in CutsFor(L, r) :
            data = Split(flat, cuts)
    /\ i = 0
    /\ agreement = <<>>
    /\ potential = <<>>
    /\ pc = "loop"
    /\ result = <<>>

\* One iteration of "for row in data".
ProcessRow ==
    /\ pc = "loop"
    /\ i < Len(data)
    /\ LET acc == RowStep(acc_now, data[i + 1])
       IN /\ agreement' = acc.agreement
          /\ potential' = acc.potential
    /\ i' = i + 1
    /\ UNCHANGED <<data, pc, result>>

\* The dict comprehension completes.
Return ==
    /\ pc = "loop"
    /\ i = Len(data)
    /\ ~Raises(acc_now)
    /\ pc' = "returned"
    /\ result' = RateMap(acc_now)
    /\ UNCHANGED <<data, i, agreement, potential>>

\* The dict comprehension divides by a zero potential.
RaiseZeroDivisionError ==
    /\ pc = "loop"
    /\ i = Len(data)
    /\ Raises(acc_now)
    /\ pc' = "raised"
    /\ UNCHANGED <<data, i, agreement, potential, result>>

Next == ProcessRow \/ Return \/ RaiseZeroDivisionError

Spec == Init /\ [][Next]_vars

\* ------------------------------------------------- helpers of the claims
outcome_now == [pc |-> pc, result |-> result]

Processed == SubSeq(data, 1, i)

\* cat is the label at some position of row.
Occurs(row, cat) == \E j \in DOMAIN row : row[j] = cat

\* The labels that occur in the rows of d.
Observed(d) == {cat \in Labels : \E k \in DOMAIN d : Occurs(d[k], cat)}

\* Unordered pairs of positions of row that both hold cat.
PairsBoth(row, cat) ==
    Cardinality({p \in (DOMAIN row) \X (DOMAIN row) :
        p[1] < p[2] /\ row[p[1]] = cat /\ row[p[2]] = cat})

\* Unordered pairs of positions of row of which at least one holds cat.
PairsAny(row, cat) ==
    Cardinality({p \in (DOMAIN row) \X (DOMAIN row) :
        p[1] < p[2] /\ (row[p[1]] = cat \/ row[p[2]] = cat)})

RECURSIVE TotalBoth(_, _)
TotalBoth(d, cat) ==
    IF Len(d) = 0 THEN 0
    ELSE TotalBoth(SubSeq(d, 1, Len(d) - 1), cat) + PairsBoth(d[Len(d)], cat)

RECURSIVE TotalAny(_, _)
TotalAny(d, cat) ==
    IF Len(d) = 0 THEN 0
    ELSE TotalAny(SubSeq(d, 1, Len(d) - 1), cat) + PairsAny(d[Len(d)], cat)

AllRowsAre(d, row) == Len(d) >= 1 /\ \A k \in DOMAIN d : d[k] = row

\* ---------------------------------------------------------------- claims

\* C1: the call never ends in a division-by-zero fault; a category whose
\* accumulated potential is 0 is left out of the returned mapping.
C1_NoDivisionFault ==
    /\ pc # "raised"
    /\ pc = "returned" => \A cat \in DOMAIN result : potential[cat] # 0

\* C2: after any prefix of the rows both accumulators hold non-negative
\* integers with agreement[cat] <= potential[cat] for every category, and
\* every rate of a returned mapping lies in [0, 1].
C2_CountsAndRange ==
    /\ DOMAIN potential = DOMAIN agreement
    /\ \A cat \in DOMAIN agreement :
          /\ agreement[cat] \in Nat
          /\ potential[cat] \in Nat
          /\ agreement[cat] <= potential[cat]
    /\ pc = "returned" =>
          \A cat \in DOMAIN result :
              /\ result[cat][2] > 0
              /\ 0 <= result[cat][1]
              /\ result[cat][1] <= result[cat][2]

C2_Witness ==
    /\ pc = "returned"
    /\ Len(data) = 2
    /\ \E cat \in DOMAIN result :
          0 < result[cat][1] /\ result[cat][1] < result[cat][2]

\* C4: the keys of the accumulators are exactly the labels of the rows
\* processed so far, and the keys of a returned mapping are exactly the
\* labels that occur in the dataset.
C4_KeysAreObserved ==
    /\ DOMAIN agreement = Observed(Processed)
    /\ pc = "returned" => DOMAIN result = Observed(data)

C4_Witness ==
    /\ pc = "returned"
    /\ Cardinality(DOMAIN result) = 2
    /\ \E k \in DOMAIN data : Cardinality(Observed(<<data[k]>>)) = 2

\* C5: N >= 1 rows, each [c, c, c], give agreement[c] = potential[c] = 3N,
\* and the call returns the mapping with the single key c and rate 1.0.
C5_UniformAgreement ==
    \A c \in Labels :
        (AllRowsAre(data, <<c, c, c>>) /\ i = Len(data)) =>
            /\ agreement = [x \in {c} |-> 3 * Len(data)]
            /\ potential = [x \in {c} |-> 3 * Len(data)]
            /\ pc # "raised"
            /\ pc = "returned" => result = [x \in {c} |-> <<1, 1>>]

C5_Witness ==
    /\ pc = "returned"
    /\ Len(data) = 2
    /\ AllRowsAre(data, <<1, 1, 1>>)

\* C6: N >= 1 rows, each [0, 1, 2], give agreement 0 and potential 2N for
\* each of the categories 0, 1, 2, and the call returns rate 0.0 for each.
C6_TotalDisagreement ==
    (AllRowsAre(data, <<0, 1, 2>>) /\ i = Len(data)) =>
        /\ agreement = [x \in {0, 1, 2} |-> 0]
        /\ potential = [x \in {0, 1, 2} |-> 2 * Len(data)]
        /\ pc # "raised"
        /\ pc = "returned" => result = [x \in {0, 1, 2} |-> <<0, 1>>]

C6_Witness ==
    /\ pc = "returned"
    /\ Len(data) = 2
    /\ AllRowsAre(data, <<0, 1, 2>>)

\* C8: for every category, agreement[cat] is the number of unordered pairs
\* of positions, within the rows processed so far, that both hold cat, and
\* potential[cat] the number of such pairs of which at least one holds cat;
\* a returned rate is the quotient of the two totals over the whole dataset.
C8_PairCounts ==
    /\ \A cat \in Labels :
          /\ DefaultGet(agreement, cat) = TotalBoth(Processed, cat)
          /\ DefaultGet(potential, cat) = TotalAny(Processed, cat)
    /\ pc = "returned" =>
          \A cat \in DOMAIN result :
              result[cat] = Rate(TotalBoth(data, cat), TotalAny(data, cat))

C8_Witness ==
    /\ pc = "returned"
    /\ \E k \in DOMAIN data, cat \in Labels :
          /\ Len(data[k]) >= 4
          /\ PairsBoth(data[k], cat) = 1
          /\ Cardinality(Observed(<<data[k]>>)) = 3

\* C9: for every category that occurs in the rows processed so far, the
\* accumulated potential is 0 exactly when each of its occurrences is in a
\* row of length 1; an occurrence in a longer row makes it positive, so the
\* quotient agreement/potential is defined.
C9_ZeroPotential ==
    \A cat \in Observed(Processed) :
        /\ cat \in DOMAIN potential
        /\ potential[cat] = 0 <=>
              \A k \in 1..i : Occurs(data[k], cat) => Len(data[k]) = 1
        /\ (\E k \in 1..i : Occurs(data[k], cat) /\ Len(data[k]) >= 2) =>
              potential[cat] > 0

C9_Witness ==
    /\ i = Len(data)
    /\ Len(data) = 2
    /\ \E c1, c2 \in DOMAIN potential : potential[c1] = 0 /\ potential[c2] > 0

\* Rows in a fixed order: shorter first, then by the first differing label.
RowLess(r, s) ==
    \/ Len(r) < Len(s)
    \/ /\ Len(r) = Len(s)
       /\ \E j \in DOMAIN r :
             r[j] < s[j] /\ \A h \in 1..(j - 1) : r[h] = s[h]

RECURSIVE InsertLabel(_, _)
InsertLabel(sorted, x) ==
    IF Len(sorted) = 0 THEN <<x>>
    ELSE IF x < Head(sorted) THEN <<x>> \o sorted
    ELSE <<Head(sorted)>> \o InsertLabel(Tail(sorted), x)

RECURSIVE SortedLabels(_)
SortedLabels(row) ==
    IF Len(row) = 0 THEN <<>>
    ELSE InsertLabel(SortedLabels(Tail(row)), Head(row))

RECURSIVE InsertRow(_, _)
InsertRow(sorted, x) ==
    IF Len(sorted) = 0 THEN <<x>>
    ELSE IF RowLess(x, Head(sorted)) THEN <<x>> \o sorted
    ELSE <<Head(sorted)>> \o InsertRow(Tail(sorted), x)

RECURSIVE SortedRows(_)
SortedRows(d) ==
    IF Len(d) = 0 THEN <<>>
    ELSE InsertRow(SortedRows(Tail(d)), Head(d))

\* The one representative of all datasets with the same multiset of
\* row-multisets: labels sorted inside each row, then the rows sorted.
Canon(d) == SortedRows([k \in DOMAIN d |-> SortedLabels(d[k])])

\* C3: the accumulators at the end of the loop and the way the call ends
\* (the mapping returned, or the fault) are those of the call on the
\* canonical rearrangement of the dataset, so any two datasets that are
\* rearrangements of each other (rows permuted, labels permuted inside
\* rows) give the same result.
C3_OrderInvariance ==
    /\ i = Len(data) => acc_now = Accumulate(Canon(data))
    /\ pc # "loop" => outcome_now = agreement_rate_by_category(Canon(data))

C3_Witness ==
    /\ pc = "returned"
    /\ Len(data) = 2
    /\ RowLess(data[2], data[1])
    /\ \E k \in DOMAIN data : SortedLabels(data[k]) # data[k]
    /\ \E cat \in DOMAIN result : result[cat][1] > 0

IsNonEmpty(row) == Len(row) > 0

NonEmptyRows(d) == SelectSeq(d, IsNonEmpty)

\* C7: the empty dataset returns the empty mapping, and rows of length 0
\* are no-ops: the accumulators after any prefix, and the way the call ends,
\* are those of the same rows with the empty ones removed.
C7_EmptyRowsAreNoOps ==
    /\ (Len(data) = 0 /\ pc # "loop") =>
          (pc = "returned" /\ DOMAIN result = {})
    /\ acc_now = Accumulate(NonEmptyRows(Processed))
    /\ pc # "loop" => outcome_now = agreement_rate_by_category(NonEmptyRows(data))

C7_Witness ==
    /\ pc = "returned"
    /\ \E k \in DOMAIN data : Len(data[k]) = 0
    /\ DOMAIN result # {}

\* The rows of d at the positions in S, in their order: one shard.
RECURSIVE Shard(_, _)
Shard(d, S) ==
    IF Len(d) = 0 THEN <<>>
    ELSE LET front == Shard(SubSeq(d, 1, Len(d) - 1), S)
         IN IF Len(d) \in S THEN Append(front, d[Len(d)]) ELSE front

\* The accumulators of every possible shard of d, each from its own pass.
ShardAccs(d) == [S \in SUBSET (1..Len(d)) |-> Accumulate(Shard(d, S))]

\* The accumulators of shards 1..n, merged one after the other; f[k] is
\* the shard of row k.
RECURSIVE MergeShards(_, _, _)
MergeShards(accs, f, n) ==
    IF n = 0 THEN EmptyAcc
    ELSE Merge(MergeShards(accs, f, n - 1), accs[{k \in DOMAIN f : f[k] = n}])

\* C10: for every assignment of the rows to shards (which covers every
\* partition and, by renaming the shards, every order of merging them),
\* the per-shard accumulators merged by per-key addition are the
\* accumulators of the sequential pass, and give the same rates.
C10_ShardAndMerge ==
    pc # "loop" =>
        LET accs == ShardAccs(data)
        IN \A f \in [1..Len(data) -> 1..NumShards] :
              LET merged == MergeShards(accs, f, NumShards)
              IN merged = acc_now /\ Finish(merged) = outcome_now

C10_Witness ==
    /\ pc = "returned"
    /\ Len(data) = 2
    /\ Observed(<<data[1]>>) \cap Observed(<<data[2]>>) # {}
    /\ Len(data[1]) >= 2
    /\ Len(data[2]) >= 2

====
